---- MODULE Spec2Model ----
(***************************************************************************)
(* uORM: the connection pool (driver/ConnectionPool.h) and the operations  *)
(* of Mapper (orm/Mapper.h) and Schema (orm/Schema.h) that borrow a        *)
(* connection from it.  Caller threads run operations concurrently; the    *)
(* pool's mutex (mutex_), its queue (connections_) and its condition       *)
(* variable (cond_) are modelled explicitly.  The database driver is the   *)
(* environment: opening a connection, the validity probe and every         *)
(* statement call may fail.                                                *)
(*                                                                         *)
(* The Query builder (orm/Query.h) and the statements Mapper's save,       *)
(* update and remove build and bind are modelled beside it, each under a   *)
(* specification of its own.  SQL text is a sequence of pieces whose       *)
(* concatenation is the string; a placeholder is always the piece "?".     *)
(***************************************************************************)
EXTENDS Integers, Sequences, FiniteSets, TLC

(***************************************************************************)
(* Bounds of the model.                                                    *)
(***************************************************************************)
NumWorkers == 3       \* threads calling getConnection directly
MaxPoolSize == 2      \* largest configured pool size of the pool scenarios
FairPoolSize == 1     \* configured pool size of the fair pool scenario
NumCallers == 2       \* threads running Mapper and Schema operations
CallerPoolSize == 1   \* configured pool size under the Mapper and Schema callers
MaxCalls == 4         \* Query builder calls made on one Query object
MaxFields == 2        \* fields of a registered entity type
MaxRows == 2          \* rows the table of the entity type holds

VARIABLES
    driver,        \* config_.driver_type together with the compiled-in backends
    poolsize,      \* config_.poolsize
    phase,         \* position of the ConnectionPool constructor
    i,             \* loop index of initializePool
    attempts,      \* createRawConnection calls made by initializePool
    opened,        \* connections initializePool found open and valid
    dialect_,      \* TRUE when dialect_ is non-null
    connections_,  \* the queue of pooled connections
    mutex_,        \* owner of mutex_ (NoOwner when free)
    waiters,       \* threads blocked in cond_.wait
    notified,      \* waiters that a notify_one has unblocked
    leaked,        \* TRUE once a connection object is left unowned and undeleted
    pc,            \* per caller: the call it is about to make
    family,        \* per caller: whose catch clauses enclose it (Mapper, Schema)
    rest,          \* per caller: the calls left in the operation's try block
    conn,          \* per caller: getConnection's local conn
    held,          \* per caller: connections owned by its connPtr
    result,        \* per caller: outcome of its last operation
    acquireCalls,  \* per caller: getConnection calls of the current operation
    validated,     \* per caller: isValid() accepted the connection it was handed
    databaseconfigdata_,  \* ConfigManager::databaseconfigdata_
    configRead     \* outcome of the last readDataBaseconfig

vars == <<driver, poolsize, databaseconfigdata_, configRead, phase, i, attempts, opened, dialect_, connections_,
          mutex_, waiters, notified, leaked, pc, family, rest, conn, held, result,
          acquireCalls, validated>>

poolVars == <<connections_, mutex_, waiters, notified, leaked>>
ctorVars == <<phase, i, attempts, opened, dialect_>>
configVars == <<driver, poolsize, databaseconfigdata_, configRead>>
callerVars == <<pc, family, rest, conn, held, result, acquireCalls, validated>>

VARIABLES
    whereClause_,    \* Query::whereClause_, as pieces
    orderByClause_,  \* Query::orderByClause_, as pieces
    limitClause_,    \* Query::limitClause_, as pieces
    offsetClause_,   \* Query::offsetClause_, as pieces
    params_,         \* Query::params_
    nextConnector_,  \* Query::nextConnector_
    supplied,        \* values the caller passed for placeholders, in call order
    pendingCall,     \* last of or_ / and_ called since the previous predicate
    predicates,      \* predicate calls made so far
    ordered,         \* the <<column, ascending>> pairs passed to orderBy, in call order
    ncalls           \* builder calls made so far

queryVars == <<whereClause_, orderByClause_, limitClause_, offsetClause_, params_,
               nextConnector_, supplied, pendingCall, predicates, ordered, ncalls>>

VARIABLES
    fields,     \* TableMeta<T>::get_fields() with the entity's value of each field
    stmtOp,     \* the Mapper operation run last
    sql,        \* the statement text it built, as pieces
    reached,    \* the last call it made: getConnection, prepare, bind, execute, done
    bound,      \* its bindValue calls: <<index, value>> in call order
    thrown,     \* what was thrown inside its try block
    surfaced,   \* what its caller received: a return value or an exception
    table,      \* the rows of the entity type's table in the database
    results,    \* the rows of the result set the driver returned to it
    returned    \* the entities it returned to its caller

stmtVars == <<fields, stmtOp, sql, reached, bound, thrown, surfaced, table, results,
              returned>>

NoOwner == 0
NoConn == 0

Workers == DOMAIN pc

(***************************************************************************)
(* Helpers on sequences and connection identities.                         *)
(***************************************************************************)
Range(s) == {s[k] : k \in DOMAIN s}

Occurrences(s, c) == Cardinality({k \in DOMAIN s : s[k] = c})

\* Every connection object that is alive somewhere in the program.
InUse == Range(connections_) \cup {conn[w] : w \in Workers}
            \cup UNION {held[w] : w \in Workers}

\* operator new: the lowest identity no live object has (storage of a deleted
\* object may be handed out again).
Fresh(used) == CHOOSE c \in 1..(Cardinality(used \ {NoConn}) + 1) :
                  /\ c \notin used
                  /\ \A d \in 1..(c - 1) : d \in used

NewConn == Fresh(InUse)

(***************************************************************************)
(* createRawConnection: what the configured backend can return.  "null" is *)
(* nullptr, "object" a wrapper whose isValid() is decided by the probe.    *)
(***************************************************************************)
Drivers == {"mysql", "postgresql", "none"}

createRawConnection(d) ==
    CASE d = "postgresql" -> {"object"}
      [] d = "mysql"      -> {"null", "object"}
      [] OTHER            -> {"null"}

\* dialect_ is set only for a backend that is compiled in.
HasDialect(d) == d # "none"


\* One call of createRawConnection followed by the caller's test
\* "conn && conn->isValid()": obj is conn != nullptr, valid is isValid().
CreateAndProbe(d) ==
    (IF "null" \in createRawConnection(d)
        THEN {[obj |-> FALSE, valid |-> FALSE]} ELSE {})
    \cup
    (IF "object" \in createRawConnection(d)
        THEN {[obj |-> TRUE, valid |-> v] : v \in BOOLEAN} ELSE {})

(***************************************************************************)
(* The operations that borrow a connection, and the calls each makes       *)
(* inside its try block.                                                   *)
(***************************************************************************)
MapperOps == {"save", "update", "remove", "truncate", "findAll", "find",
              "findOne", "select", "selectOne", "count"}
SchemaOps == {"createTable", "dropTable"}
\* A caller may also use the pool's public getConnection directly and let the
\* returned pointer go out of scope.
DirectOps == {"getConnection"}
Ops == MapperOps \cup SchemaOps \cup DirectOps

\* Calls as it would be if selectOne took a connection of its own before
\* delegating to select.
CallsTwice(o) ==
    CASE o \in DirectOps
            -> <<"getConnection", "use">>
      [] o \in {"truncate", "createTable", "dropTable"}
            -> <<"getConnection", "createStatement", "execute">>
      [] o = "findAll"
            -> <<"getConnection", "prepareStatement", "execute">>
      [] o = "selectOne"
            -> <<"getConnection", "getConnection", "prepareStatement", "bind", "execute">>
      [] OTHER
            -> <<"getConnection", "prepareStatement", "bind", "execute">>

Calls(o) ==
    CASE o \in DirectOps
            -> <<"getConnection", "use">>
      [] o \in {"truncate", "createTable", "dropTable"}
            -> <<"getConnection", "createStatement", "execute">>
      [] o = "findAll"
            -> <<"getConnection", "prepareStatement", "execute">>
      [] OTHER
            -> <<"getConnection", "prepareStatement", "bind", "execute">>

\* Every Mapper operation and createTable return at once when dialect_ is null;
\* dropTable dereferences the dialect without testing it.
ChecksDialect(o) == o \in MapperOps \cup {"createTable"}

UsesDialect(o) == o \in MapperOps \cup SchemaOps

Family(o) ==
    CASE o \in SchemaOps -> "Schema"
      [] o \in MapperOps -> "Mapper"
      [] OTHER -> "Direct"

\* What an operation returns when it finds dialect_ null.
NoDialect(o) == IF o \in SchemaOps THEN "false" ELSE "default"

\* Schema::execute with the catch clauses of a Mapper operation.
OutcomeRethrown(f, exc) ==
    CASE exc = "none" -> "ok"
      [] exc = "ConnectionError" -> "ConnectionError"
      [] OTHER -> "SqlError"

\* What the catch clauses of Schema::execute, or of a Mapper operation, make of
\* an exception ("none": normal return).
Outcome(f, exc) ==
    IF f = "Schema"
       THEN (IF exc = "none" THEN "ok" ELSE "false")
       ELSE CASE exc = "none" -> "ok"
              [] exc = "ConnectionError" -> "ConnectionError"
              [] OTHER -> "SqlError"

(***************************************************************************)
(* The pool's primitives.                                                  *)
(***************************************************************************)
\* front() without pop().
PopKeep(q) == q

\* connections_.pop()
Pop(q) == Tail(q)

\* releaseConnection without its notify_one.
NotifyNobody(ws, ns) == {ns}

\* cond_.notify_one(): unblocks one thread waiting on cond_, if there is one.
NotifyOne(ws, ns) ==
    IF ws \ ns = {} THEN {ns} ELSE {ns \cup {w} : w \in ws \ ns}

\* initializePool testing "conn" alone.
KeepInitialUnprobed(obj, valid) == obj

\* initializePool keeps a connection when "conn && conn->isValid()".
KeepInitial(obj, valid) == obj /\ valid

\* getConnection hands the overflow connection out when "conn && conn->isValid()".
KeepOverflow(obj, valid) == obj /\ valid

\* getConnection without the probe of the queued candidate.
KeepCandidateUnprobed(valid) == TRUE

\* getConnection hands the queued candidate out unless "!conn->isValid()".
KeepCandidate(valid) == valid

\* getConnection hands the replacement out unless "!conn || !conn->isValid()".
KeepReplacement(obj, valid) == obj /\ valid

\* An operation that releases by hand at the end of its try block: an exception
\* skips the release.
ExitPcNoUnwind(owned, exc) ==
    IF owned # {} /\ exc = "none" THEN "releaseConnection" ELSE "idle"

\* Scope exit of an operation: connPtr's deleter runs when a connection is owned.
ExitPc(owned, exc) == IF owned # {} THEN "releaseConnection" ELSE "idle"

(***************************************************************************)
(* A default-constructed Query: empty clauses, no parameters, connector    *)
(* AND.                                                                    *)
(***************************************************************************)
Query ==
    /\ whereClause_ = <<>>
    /\ orderByClause_ = <<>>
    /\ limitClause_ = <<>>
    /\ offsetClause_ = <<>>
    /\ params_ = <<>>
    /\ nextConnector_ = "AND"
    /\ supplied = <<>>
    /\ pendingCall = "none"
    /\ predicates = 0
    /\ ordered = <<>>
    /\ ncalls = 0

\* No exception; no Mapper operation run yet.
Nothing == [kind |-> "none", what |-> ""]

NoStatement ==
    /\ stmtOp = "none"
    /\ sql = <<>>
    /\ reached = "none"
    /\ bound = <<>>
    /\ thrown = Nothing
    /\ surfaced = [kind |-> "none", what |-> "", value |-> "none"]
    /\ table = <<>>
    /\ results = <<>>
    /\ returned = <<>>

(***************************************************************************)
(* Initial state: nothing constructed, the callers idle.                   *)
(***************************************************************************)
Unbuilt(n, sizes) ==
    /\ driver \in Drivers
    /\ poolsize \in sizes
    /\ databaseconfigdata_ =
          [driver_type |-> "MySQL", hostname |-> "", port |-> 0, username |-> "",
           password |-> "", dataname |-> "", poolsize |-> 0]
    /\ configRead = "none"
    /\ phase = "new"
    /\ i = 0
    /\ attempts = 0
    /\ opened = <<>>
    /\ dialect_ = FALSE
    /\ connections_ = <<>>
    /\ mutex_ = NoOwner
    /\ waiters = {}
    /\ notified = {}
    /\ leaked = FALSE
    /\ pc = [w \in 1..n |-> "idle"]
    /\ family = [w \in 1..n |-> "none"]
    /\ rest = [w \in 1..n |-> <<>>]
    /\ conn = [w \in 1..n |-> NoConn]
    /\ held = [w \in 1..n |-> {}]
    /\ result = [w \in 1..n |-> "none"]
    /\ acquireCalls = [w \in 1..n |-> 0]
    /\ validated = [w \in 1..n |-> FALSE]

InitWith(n, sizes) ==
    /\ Unbuilt(n, sizes)
    /\ Query
    /\ NoStatement
    /\ fields = <<>>

Init == InitWith(NumWorkers, 1..MaxPoolSize)

FairInit == InitWith(NumWorkers, {FairPoolSize})

MapperInit == InitWith(NumCallers, {CallerPoolSize})

(***************************************************************************)
(* ConnectionPool::ConnectionPool and initializePool.                      *)
(***************************************************************************)
ConnectionPool ==
    /\ phase = "new"
    /\ dialect_' = HasDialect(driver)
    /\ phase' = "initializePool"
    /\ i' = 0
    /\ UNCHANGED <<attempts, opened>>
    /\ UNCHANGED <<configVars, poolVars, callerVars>>

initializePool ==
    /\ phase = "initializePool"
    /\ i < poolsize
    /\ \E r \in CreateAndProbe(driver) :
          /\ IF KeepInitial(r.obj, r.valid)
                THEN connections_' = Append(connections_, NewConn)
                ELSE connections_' = connections_
          /\ opened' = IF r.obj /\ r.valid THEN Append(opened, NewConn) ELSE opened
    /\ attempts' = attempts + 1
    /\ i' = i + 1
    /\ UNCHANGED <<phase, dialect_, mutex_, waiters, notified, leaked>>
    /\ UNCHANGED <<configVars, callerVars>>

ConstructorReturn ==
    /\ phase = "initializePool"
    /\ i >= poolsize
    /\ phase' = "ready"
    /\ i' = 0
    /\ attempts' = 0
    /\ opened' = <<>>
    /\ UNCHANGED dialect_
    /\ UNCHANGED <<configVars, poolVars, callerVars>>


(***************************************************************************)
(* A caller starts an operation: the dialect test at its top.              *)
(***************************************************************************)
\* What decides how an operation runs: its catch clauses, its calls, and what it
\* does about dialect_.  Operations agreeing on these run alike.
Shape(o) == [family |-> Family(o), calls |-> Calls(o), checks |-> ChecksDialect(o),
             uses |-> UsesDialect(o), noDialect |-> NoDialect(o)]

BeginOneOf(w, ops) ==
    /\ pc[w] = "idle"
    /\ phase = "ready"
    /\ \E s \in {Shape(o) : o \in ops} :
          \/ /\ s.checks
             /\ ~dialect_
             /\ result' = [result EXCEPT ![w] = s.noDialect]
             /\ UNCHANGED <<pc, family, rest>>
          \/ \* a null dialect_ dereferenced: the call may crash ...
             /\ s.uses
             /\ ~s.checks
             /\ ~dialect_
             /\ result' = [result EXCEPT ![w] = "undefined"]
             /\ UNCHANGED <<pc, family, rest>>
          \/ \* ... or go on to the try block
             /\ s.checks => dialect_
             /\ family' = [family EXCEPT ![w] = s.family]
             /\ pc' = [pc EXCEPT ![w] = Head(s.calls)]
             /\ rest' = [rest EXCEPT ![w] = Tail(s.calls)]
             /\ result' = [result EXCEPT ![w] = "none"]
    /\ acquireCalls' = [acquireCalls EXCEPT ![w] = 0]
    /\ validated' = [validated EXCEPT ![w] = FALSE]
    /\ UNCHANGED <<conn, held>>
    /\ UNCHANGED <<configVars, ctorVars, poolVars>>

\* A caller starts any operation.
Begin(w) == BeginOneOf(w, Ops)

\* A caller uses the pool directly.
BeginDirect(w) == BeginOneOf(w, DirectOps)

(***************************************************************************)
(* How a call of the operation ends.                                       *)
(***************************************************************************)
\* The call returns and the operation makes its next call.
NextCall(w) ==
    /\ pc' = [pc EXCEPT ![w] = Head(rest[w])]
    /\ rest' = [rest EXCEPT ![w] = Tail(@)]
    /\ UNCHANGED <<family, result, acquireCalls>>

\* getConnection returns c to the operation.
Return(w, c, v) ==
    /\ held' = [held EXCEPT ![w] = @ \cup {c}]
    /\ conn' = [conn EXCEPT ![w] = NoConn]
    /\ validated' = [validated EXCEPT ![w] = v]
    /\ NextCall(w)

\* The operation leaves its try block, normally or by the exception exc.
Exit(w, exc) ==
    /\ result' = [result EXCEPT ![w] = Outcome(family[w], exc)]
    /\ pc' = [pc EXCEPT ![w] = ExitPc(held[w], exc)]
    /\ family' = [family EXCEPT ![w] = IF ExitPc(held[w], exc) = "idle" THEN "none" ELSE @]
    /\ rest' = [rest EXCEPT ![w] = <<>>]
    /\ validated' = [validated EXCEPT ![w] = FALSE]
    /\ UNCHANGED <<held, acquireCalls>>

(***************************************************************************)
(* ConnectionPool::getConnection.                                          *)
(***************************************************************************)
\* Lines 45-48 and 59-61: lock; a non-empty queue is popped and the lock dropped,
\* an empty one leaves the caller inside createRawConnection with the lock held.
GetConnection(w) ==
    /\ pc[w] = "getConnection"
    /\ mutex_ = NoOwner
    /\ acquireCalls' = [acquireCalls EXCEPT ![w] = @ + 1]
    /\ IF connections_ # <<>>
          THEN /\ conn' = [conn EXCEPT ![w] = Head(connections_)]
               /\ connections_' = Pop(connections_)
               /\ pc' = [pc EXCEPT ![w] = "isValid"]
               /\ UNCHANGED mutex_
          ELSE /\ mutex_' = w
               /\ pc' = [pc EXCEPT ![w] = "createRawConnection"]
               /\ UNCHANGED <<conn, connections_>>
    /\ UNCHANGED <<family, rest, held, result, validated>>
    /\ UNCHANGED <<waiters, notified, leaked>>
    /\ UNCHANGED <<configVars, ctorVars>>

\* Lines 50-56: the overflow connection is returned when valid; otherwise the
\* caller drops the lock and waits on cond_ (the object, if any, stays allocated).
OverflowCreate(w) ==
    /\ pc[w] = "createRawConnection"
    /\ mutex_ = w
    /\ mutex_' = NoOwner
    /\ \E r \in CreateAndProbe(driver) :
          IF KeepOverflow(r.obj, r.valid)
             THEN /\ Return(w, NewConn, r.valid)
                  /\ UNCHANGED <<waiters, leaked>>
             ELSE /\ pc' = [pc EXCEPT ![w] = "wait"]
                  /\ waiters' = waiters \cup {w}
                  /\ leaked' = (leaked \/ r.obj)
                  /\ UNCHANGED <<family, rest, conn, held, result, acquireCalls, validated>>
    /\ UNCHANGED <<connections_, notified>>
    /\ UNCHANGED <<configVars, ctorVars>>

\* Line 56: cond_.wait returns, after a notify or spuriously; the caller retakes
\* the lock and tests the predicate, which sends it back to waiting on an empty
\* queue (a spurious return that finds the queue empty changes nothing).
Wake(w) ==
    /\ pc[w] = "wait"
    /\ w \in notified \/ connections_ # <<>>
    /\ mutex_ = NoOwner
    /\ notified' = notified \ {w}
    /\ IF connections_ # <<>>
          THEN /\ conn' = [conn EXCEPT ![w] = Head(connections_)]
               /\ connections_' = Pop(connections_)
               /\ waiters' = waiters \ {w}
               /\ pc' = [pc EXCEPT ![w] = "isValid"]
          ELSE UNCHANGED <<conn, connections_, waiters, pc>>
    /\ UNCHANGED <<family, rest, held, result, acquireCalls, validated>>
    /\ UNCHANGED <<mutex_, leaked>>
    /\ UNCHANGED <<configVars, ctorVars>>

\* The return from cond_.wait that a notify_one guarantees.
NotifiedWake(w) == w \in notified /\ Wake(w)

\* Lines 64-74: the candidate is probed outside the lock; an invalid one is
\* deleted and replaced, and a failed replacement throws ConnectionError.
IsValid(w) ==
    /\ pc[w] = "isValid"
    /\ \E v \in BOOLEAN :
          IF KeepCandidate(v)
             THEN Return(w, conn[w], v)
             ELSE \E r \in CreateAndProbe(driver) :
                     IF KeepReplacement(r.obj, r.valid)
                        THEN Return(w, Fresh(InUse \ {conn[w]}), r.valid)
                        ELSE /\ conn' = [conn EXCEPT ![w] = NoConn]
                             /\ Exit(w, "ConnectionError")
    /\ UNCHANGED <<configVars, ctorVars, poolVars>>

(***************************************************************************)
(* The statement calls made on the borrowed connection.                    *)
(***************************************************************************)
StatementCalls == {"prepareStatement", "createStatement", "bind", "execute"}

\* The calls an operation makes while it owns a connection.
BodyCalls == StatementCalls \cup {"use"}

CallReturns(w) ==
    /\ pc[w] \in BodyCalls
    /\ IF rest[w] # <<>>
          THEN /\ NextCall(w)
               /\ UNCHANGED <<held, validated>>
          ELSE Exit(w, "none")
    /\ UNCHANGED conn
    /\ UNCHANGED <<configVars, ctorVars, poolVars>>

\* The driver throws (sql::SQLException, pqxx failures: all std::exception).
CallThrows(w) ==
    /\ pc[w] \in StatementCalls
    /\ Exit(w, "std::exception")
    /\ UNCHANGED conn
    /\ UNCHANGED <<configVars, ctorVars, poolVars>>

(***************************************************************************)
(* ConnectionPool::releaseConnection, run by connPtr's deleter.            *)
(***************************************************************************)
ReleaseConnection(w) ==
    /\ pc[w] = "releaseConnection"
    /\ mutex_ = NoOwner
    /\ \E c \in held[w] :
          /\ connections_' = Append(connections_, c)
          /\ held' = [held EXCEPT ![w] = @ \ {c}]
          /\ pc' = [pc EXCEPT ![w] = IF held[w] = {c} THEN "idle" ELSE @]
          /\ family' = [family EXCEPT ![w] = IF held[w] = {c} THEN "none" ELSE @]
    /\ \E ns \in NotifyOne(waiters, notified) : notified' = ns
    /\ UNCHANGED <<conn, rest, result, acquireCalls, validated>>
    /\ UNCHANGED <<mutex_, waiters, leaked>>
    /\ UNCHANGED <<configVars, ctorVars>>

(***************************************************************************)
(* Query (orm/Query.h).  The builder's private helpers are operators on    *)
(* the object's state q; each public method is an action.                  *)
(***************************************************************************)
\* The string a sequence of pieces stands for.
RECURSIVE Text(_)
Text(ps) == IF ps = <<>> THEN "" ELSE Head(ps) \o Text(Tail(ps))

\* std::string::empty()
empty(ps) == Text(ps) = ""

\* The Query object as a record of its members.
This ==
    [whereClause_ |-> whereClause_, params_ |-> params_,
     nextConnector_ |-> nextConnector_]

\* Stores the members a predicate method may have written.
Store(q) ==
    /\ whereClause_' = q.whereClause_
    /\ params_' = q.params_
    /\ nextConnector_' = q.nextConnector_

\* Column names and values the caller passes: the k-th predicate call names the
\* k-th column, and the values passed for placeholders are numbered in call order,
\* so that every placeholder has a value of its own.
Columns == <<"x", "y", "z", "u", "v", "w">>
NextColumn == {Columns[predicates + 1]}
NextOrderColumn == {Columns[Len(ordered) + 1]}
NextValues(n) == [k \in 1..n |-> Len(supplied) + k]
InSizes == {0, 2}
LimitValues == {0, 10}
OffsetValues == {0, 20}

\* appendConnector without the reset of nextConnector_.
appendConnectorSticky(q) ==
    [q EXCEPT !.whereClause_ = IF ~empty(q.whereClause_)
                                  THEN @ \o <<" " \o q.nextConnector_ \o " ">>
                                  ELSE @]

\* void appendConnector()
appendConnector(q) ==
    [q EXCEPT !.whereClause_ = IF ~empty(q.whereClause_)
                                  THEN @ \o <<" " \o q.nextConnector_ \o " ">>
                                  ELSE @,
              !.nextConnector_ = "AND"]

\* appendCondition without the push to params_.
appendConditionUnbound(q, col, op, val) ==
    LET c == appendConnector(q)
    IN  [c EXCEPT !.whereClause_ = @ \o <<col, " " \o op \o " ", "?">>]

\* void appendCondition(col, op, val)
appendCondition(q, col, op, val) ==
    LET c == appendConnector(q)
    IN  [c EXCEPT !.whereClause_ = @ \o <<col, " " \o op \o " ", "?">>,
                  !.params_ = Append(@, val)]

\* appendConditionNoVal without the call of appendConnector.
appendConditionNoValBare(q, col, op) ==
    [q EXCEPT !.whereClause_ = @ \o <<col, " " \o op>>]

\* void appendConditionNoVal(col, op)
appendConditionNoVal(q, col, op) ==
    LET c == appendConnector(q)
    IN  [c EXCEPT !.whereClause_ = @ \o <<col, " " \o op>>]

\* The loop of in / notIn: "?" for the first value, ", ?" for the others, each
\* value pushed to params_.
RECURSIVE PlaceholderList(_, _, _)
PlaceholderList(q, values, k) ==
    IF k > Len(values) THEN q
    ELSE PlaceholderList(
            [q EXCEPT !.whereClause_ = IF k = 1 THEN @ \o <<"?">> ELSE @ \o <<", ", "?">>,
                      !.params_ = Append(@, values[k])],
            values, k + 1)

\* What every builder call leaves alone or records beside the object.
Called(connector, passed) ==
    /\ ncalls < MaxCalls
    /\ ncalls' = ncalls + 1
    /\ pendingCall' = connector
    /\ supplied' = supplied \o passed

Predicate(q, passed) ==
    /\ Called("none", passed)
    /\ predicates' = predicates + 1
    /\ UNCHANGED ordered
    /\ Store(q)
    /\ UNCHANGED <<orderByClause_, limitClause_, offsetClause_>>

or_ ==
    /\ Called("or_", <<>>)
    /\ nextConnector_' = "OR"
    /\ UNCHANGED <<whereClause_, params_, orderByClause_, limitClause_, offsetClause_,
                   predicates, ordered>>

and_ ==
    /\ Called("and_", <<>>)
    /\ nextConnector_' = "AND"
    /\ UNCHANGED <<whereClause_, params_, orderByClause_, limitClause_, offsetClause_,
                   predicates, ordered>>

eq(col, val) == Predicate(appendCondition(This, col, "=", val), <<val>>)
ne(col, val) == Predicate(appendCondition(This, col, "!=", val), <<val>>)
gt(col, val) == Predicate(appendCondition(This, col, ">", val), <<val>>)
lt(col, val) == Predicate(appendCondition(This, col, "<", val), <<val>>)
ge(col, val) == Predicate(appendCondition(This, col, ">=", val), <<val>>)
le(col, val) == Predicate(appendCondition(This, col, "<=", val), <<val>>)
like(col, val) == Predicate(appendCondition(This, col, "LIKE", val), <<val>>)

isNull(col) == Predicate(appendConditionNoVal(This, col, "IS NULL"), <<>>)
isNotNull(col) == Predicate(appendConditionNoVal(This, col, "IS NOT NULL"), <<>>)

\* between pushing max before min.
betweenSwapped(col, min, max) ==
    LET c == appendConnector(This)
    IN  Predicate([c EXCEPT !.whereClause_ = @ \o <<col, " BETWEEN ", "?", " AND ", "?">>,
                            !.params_ = Append(Append(@, max), min)],
                  <<min, max>>)

\* Query& between(col, min, max)
between(col, min, max) ==
    LET c == appendConnector(This)
    IN  Predicate([c EXCEPT !.whereClause_ = @ \o <<col, " BETWEEN ", "?", " AND ", "?">>,
                            !.params_ = Append(Append(@, min), max)],
                  <<min, max>>)

\* in without the test for an empty value list.
inAlwaysList(col, values) ==
    LET c == appendConnector(This)
        o == [c EXCEPT !.whereClause_ = @ \o <<col, " IN (">>]
        l == PlaceholderList(o, values, 1)
    IN  Predicate([l EXCEPT !.whereClause_ = @ \o <<")">>], values)

\* Query& in(col, values)
in(col, values) ==
    IF values = <<>>
    THEN LET c == appendConnector(This)
         IN  Predicate([c EXCEPT !.whereClause_ = @ \o <<"1=0">>], <<>>)
    ELSE LET c == appendConnector(This)
             o == [c EXCEPT !.whereClause_ = @ \o <<col, " IN (">>]
             l == PlaceholderList(o, values, 1)
         IN  Predicate([l EXCEPT !.whereClause_ = @ \o <<")">>], values)

\* Query& notIn(col, values)
notIn(col, values) ==
    IF values = <<>>
    THEN LET c == appendConnector(This)
         IN  Predicate([c EXCEPT !.whereClause_ = @ \o <<"1=1">>], <<>>)
    ELSE LET c == appendConnector(This)
             o == [c EXCEPT !.whereClause_ = @ \o <<col, " NOT IN (">>]
             l == PlaceholderList(o, values, 1)
         IN  Predicate([l EXCEPT !.whereClause_ = @ \o <<")">>], values)

\* A method that writes neither the WHERE text, the parameters nor the connector.
Frame ==
    /\ Called(pendingCall, <<>>)
    /\ UNCHANGED <<whereClause_, params_, nextConnector_, predicates>>

\* orderBy assigning the clause on every call.
orderByReplacing(col, asc) ==
    /\ Frame
    /\ ordered' = Append(ordered, <<col, asc>>)
    /\ orderByClause_' = <<" ORDER BY ", col, IF asc THEN " ASC" ELSE " DESC">>
    /\ UNCHANGED <<limitClause_, offsetClause_>>

\* Query& orderBy(col, asc)
orderBy(col, asc) ==
    /\ Frame
    /\ ordered' = Append(ordered, <<col, asc>>)
    /\ orderByClause_' =
          IF empty(orderByClause_)
          THEN <<" ORDER BY ", col, IF asc THEN " ASC" ELSE " DESC">>
          ELSE orderByClause_ \o <<", ", col, IF asc THEN " ASC" ELSE " DESC">>
    /\ UNCHANGED <<limitClause_, offsetClause_>>

\* limit going through appendConnector's reset of the connector.
limitResetting(n) ==
    /\ Called("none", <<>>)
    /\ nextConnector_' = "AND"
    /\ limitClause_' = <<" LIMIT ", ToString(n)>>
    /\ UNCHANGED <<whereClause_, params_, predicates, orderByClause_, offsetClause_, ordered>>

\* Query& limit(int)
limit(n) ==
    /\ Frame
    /\ limitClause_' = <<" LIMIT ", ToString(n)>>
    /\ UNCHANGED <<orderByClause_, offsetClause_, ordered>>

\* Query& offset(int)
offset(n) ==
    /\ Frame
    /\ offsetClause_' = <<" OFFSET ", ToString(n)>>
    /\ UNCHANGED <<orderByClause_, limitClause_, ordered>>

(***************************************************************************)
(* Mapper<T>::save, update, remove (orm/Mapper.h): the statement text, the *)
(* bindValue calls and the catch clauses.  A field is its column name, the *)
(* tags of its constraint string, its C++ type and the entity's value.     *)
(***************************************************************************)
Tags == {"PRIMARY KEY", "AUTO_INCREMENT", "DEFAULT"}

\* The fields a type may declare k-th: any tags, an int or a std::string, the
\* string empty or not; the values of an entity's fields differ from each other.
FieldKinds(k) ==
    {[column |-> Columns[k], tags |-> t, type |-> "int", value |-> ToString(k)] :
         t \in SUBSET Tags}
    \cup {[column |-> Columns[k], tags |-> t, type |-> "std::string", value |-> v] :
         t \in SUBSET Tags, v \in {"", "s" \o ToString(k)}}

RECURSIVE EntitiesOfLength(_)
EntitiesOfLength(n) ==
    IF n = 0 THEN {<<>>}
    ELSE {Append(e, f) : e \in EntitiesOfLength(n - 1), f \in FieldKinds(n)}

Entities == UNION {EntitiesOfLength(n) : n \in 1..MaxFields}

TableName == "t"

\* ISqlDialect::quoteIdentifier: the name between backquotes for MySQL and between
\* double quotes for PostgreSQL.  Neither character can be written in a string
\* here: an apostrophe stands for the backquote, two for the double quote.
quoteIdentifier(d, id) ==
    IF d = "mysql" THEN "'" \o id \o "'" ELSE "''" \o id \o "''"

\* ISqlDialect::supportsReturningId
supportsReturningId(d) == d = "postgresql"

\* ISqlDialect::getLastInsertIdSql
getLastInsertIdSql(d) == "RETURNING id"

isAutoIncrement(constraints) == "AUTO_INCREMENT" \in constraints

isPrimaryKey(constraints) == "PRIMARY KEY" \in constraints

hasDefaultConstraint(constraints) == "DEFAULT" \in constraints

\* skips the auto-increment fields only
shouldSkipInsertAutoOnly(field) == isAutoIncrement(field.tags)

shouldSkipInsert(field) ==
    \/ isAutoIncrement(field.tags)
    \/ /\ field.type = "std::string"
       /\ field.value = ""
       /\ hasDefaultConstraint(field.tags)

\* The test of each std::apply pass: save's passes take the fields that
\* shouldSkipInsert does not skip, the SET passes the fields that are not primary
\* keys, the WHERE passes the primary keys.
Takes(pass, field) ==
    CASE pass = "insert" -> ~shouldSkipInsert(field)
      [] pass = "set"    -> ~isPrimaryKey(field.tags)
      [] pass = "key"    -> isPrimaryKey(field.tags)

\* One std::apply pass over the fields writing to the stringstream: for every
\* field the pass takes, the separator unless it is the first taken, then the
\* quoted column name and the suffix.  k is the field reached, first the flag.
RECURSIVE ColumnPass(_, _, _, _, _, _, _)
ColumnPass(d, fs, k, first, pass, sep, suffix) ==
    IF k > Len(fs) THEN <<>>
    ELSE IF Takes(pass, fs[k])
         THEN (IF first THEN <<>> ELSE <<sep>>)
                 \o <<quoteIdentifier(d, fs[k].column)>> \o suffix
                 \o ColumnPass(d, fs, k + 1, FALSE, pass, sep, suffix)
         ELSE ColumnPass(d, fs, k + 1, first, pass, sep, suffix)

\* The pass of save that writes one "?" per field it takes.
RECURSIVE PlaceholderPass(_, _, _, _)
PlaceholderPass(fs, k, first, pass) ==
    IF k > Len(fs) THEN <<>>
    ELSE IF Takes(pass, fs[k])
         THEN (IF first THEN <<>> ELSE <<", ">>) \o <<"?">>
                 \o PlaceholderPass(fs, k + 1, FALSE, pass)
         ELSE PlaceholderPass(fs, k + 1, first, pass)

\* One std::apply pass calling bindValue(pstmt, index++, value) for every field
\* it takes: the calls made, starting at the given index.
RECURSIVE BindPass(_, _, _, _)
BindPass(fs, k, index, pass) ==
    IF k > Len(fs) THEN <<>>
    ELSE IF Takes(pass, fs[k])
         THEN <<[index |-> index, value |-> fs[k].value]>>
                 \o BindPass(fs, k + 1, index + 1, pass)
         ELSE BindPass(fs, k + 1, index, pass)

\* The statement text of save, update and remove.
InsertSql(d, fs) ==
    <<"INSERT INTO ", quoteIdentifier(d, TableName), " (">>
       \o ColumnPass(d, fs, 1, TRUE, "insert", ", ", <<>>)
       \o <<") VALUES (">>
       \o PlaceholderPass(fs, 1, TRUE, "insert")
       \o <<")">>
       \o (IF supportsReturningId(d) THEN <<" ", getLastInsertIdSql(d)>> ELSE <<>>)

UpdateSql(d, fs) ==
    <<"UPDATE ", quoteIdentifier(d, TableName), " SET ">>
       \o ColumnPass(d, fs, 1, TRUE, "set", ", ", <<" = ", "?">>)
       \o <<" WHERE ">>
       \o ColumnPass(d, fs, 1, TRUE, "key", " AND ", <<" = ", "?">>)

DeleteSql(d, fs) ==
    <<"DELETE FROM ", quoteIdentifier(d, TableName), " WHERE ">>
       \o ColumnPass(d, fs, 1, TRUE, "key", " AND ", <<" = ", "?">>)

\* The bindValue calls of save, update and remove, index starting at 1.
InsertBinds(fs) == BindPass(fs, 1, 1, "insert")

\* binds the key values before the others
UpdateBindsKeysFirst(fs) ==
    LET key == BindPass(fs, 1, 1, "key")
    IN  key \o BindPass(fs, 1, Len(key) + 1, "set")

UpdateBinds(fs) ==
    LET set == BindPass(fs, 1, 1, "set")
    IN  set \o BindPass(fs, 1, Len(set) + 1, "key")

DeleteBinds(fs) == BindPass(fs, 1, 1, "key")

(***************************************************************************)
(* Exceptions (orm/Error.h) and the catch clauses of the Mapper            *)
(* operations.                                                             *)
(***************************************************************************)
\* The base class of each exception class; the driver libraries throw classes
\* derived from std::runtime_error.
BaseOf ==
    [c \in {"ConfigurationError", "DatabaseError", "OrmError", "ConnectionError",
            "SqlError", "Exception", "sql::SQLException", "std::runtime_error",
            "std::exception"} |->
        CASE c \in {"ConfigurationError", "DatabaseError", "OrmError"} -> "Exception"
          [] c \in {"ConnectionError", "SqlError"} -> "DatabaseError"
          [] c = "Exception" -> "std::exception"
          [] c = "sql::SQLException" -> "std::runtime_error"
          [] c = "std::runtime_error" -> "std::exception"
          [] OTHER -> "none"]

\* Whether a handler "catch (const class&)" takes an exception of class c.
RECURSIVE IsA(_, _)
IsA(c, class) ==
    IF c = class THEN TRUE
    ELSE IF c \notin DOMAIN BaseOf THEN FALSE
    ELSE IsA(BaseOf[c], class)

\* The message prefix of each operation's SqlError.  The literals of the source
\* are not ASCII; these stand for them, one per distinct literal.
Prefix(o) ==
    CASE o = "save" -> "save failed: "
      [] o = "update" -> "update failed: "
      [] o = "remove" -> "remove failed: "
      [] o = "truncate" -> "truncate failed: "
      [] o = "count" -> "count failed: "
      [] OTHER -> "query failed: "

\* wrap-everything variant of the catch clauses: no handler for uORM::Exception.
CatchWrapAll(o, t, value) ==
    IF t.kind = "none" THEN [kind |-> "none", what |-> "", value |-> value]
    ELSE IF IsA(t.kind, "std::exception")
         THEN [kind |-> "SqlError", what |-> Prefix(o) \o t.what, value |-> "none"]
         ELSE [kind |-> t.kind, what |-> t.what, value |-> "none"]

\* try { ... return value; } catch (const uORM::Exception&) { throw; }
\* catch (const std::exception& e) { throw SqlError(prefix + e.what()); }
Catch(o, t, value) ==
    IF t.kind = "none" THEN [kind |-> "none", what |-> "", value |-> value]
    ELSE IF IsA(t.kind, "Exception")
         THEN [kind |-> t.kind, what |-> t.what, value |-> "none"]
         ELSE IF IsA(t.kind, "std::exception")
              THEN [kind |-> "SqlError", what |-> Prefix(o) \o t.what, value |-> "none"]
              ELSE [kind |-> t.kind, what |-> t.what, value |-> "none"]

\* How a run of an operation's try block ends: every call returns, or one of
\* them throws.
Done == [stage |-> "done", kind |-> "none", what |-> ""]

\* getConnection throws ConnectionError; the driver throws from prepareStatement
\* and from executeUpdate / executeQuery.
DriverOutcomes ==
    {Done, [stage |-> "getConnection", kind |-> "ConnectionError", what |-> "c"]}
    \cup {[stage |-> st, kind |-> "sql::SQLException", what |-> "d"] :
             st \in {"prepare", "execute"}}

\* Any call throwing any class of exception.
ThrownKinds ==
    {"ConfigurationError", "ConnectionError", "SqlError", "OrmError",
     "sql::SQLException", "std::runtime_error"}

AllOutcomes ==
    {Done}
    \cup {[stage |-> st, kind |-> k, what |-> "m"] :
             st \in {"getConnection", "prepare", "bind", "execute"}, k \in ThrownKinds}

\* An operation that found a dialect: the statement text is built, then the try
\* block runs to the outcome o.
Run(o, text, binds, out, value) ==
    /\ HasDialect(driver)
    /\ out.stage = "bind" => binds # <<>>
    /\ stmtOp' = o
    /\ sql' = text
    /\ reached' = out.stage
    /\ bound' = IF out.stage \in {"execute", "done"} THEN binds ELSE <<>>
    /\ thrown' = [kind |-> out.kind, what |-> out.what]
    /\ surfaced' = Catch(o, [kind |-> out.kind, what |-> out.what], value)
    /\ UNCHANGED fields

\* if (!dialect) return ...;
NoDialectReturn(o, value) ==
    /\ ~HasDialect(driver)
    /\ stmtOp' = o
    /\ sql' = <<>>
    /\ reached' = "none"
    /\ bound' = <<>>
    /\ thrown' = Nothing
    /\ surfaced' = [kind |-> "none", what |-> "", value |-> value]
    /\ UNCHANGED fields

(***************************************************************************)
(* Values on their way to the database and back.  Every value is written   *)
(* as its text; Null is the std::nullptr_t alternative of SqlValue.        *)
(***************************************************************************)
Null == 0

\* bindValue(pstmt, index, val): the setter each overload calls and the value it
\* passes.  The unsigned long long overload casts to long long, which turns
\* 2^64 - 1 into -1.
bindValue(type, val) ==
    CASE type = "int" -> [set |-> "setInt", value |-> val]
      [] type = "long long" -> [set |-> "setInt64", value |-> val]
      [] type = "unsigned int" -> [set |-> "setUInt", value |-> val]
      [] type = "unsigned long long" ->
            [set |-> "setInt64",
             value |-> IF val = "18446744073709551615" THEN "-1" ELSE val]
      [] type = "std::string" -> [set |-> "setString", value |-> val]
      [] type = "bool" -> [set |-> "setBoolean", value |-> val]
      [] type = "double" -> [set |-> "setDouble", value |-> val]

\* The parameter the prepared statement keeps for a setter call.  The MySQL
\* wrapper forwards the value; the PostgreSQL wrapper keeps std::to_string of a
\* number, which writes a double with six decimals.
addParam(d, call) ==
    IF d = "postgresql" /\ call.set = "setDouble"
    THEN (CASE call.value = "0.5" -> "0.500000"
            [] call.value = "0.1234567" -> "0.123457"
            [] OTHER -> call.value)
    ELSE call.value

\* What a column of the type TypeMapping gives the field keeps of a parameter:
\* the number the text denotes; BIGINT UNSIGNED keeps 0 for a negative number
\* when the server does not reject it; TINYINT(1) keeps 1 or 0.
TypeMapping(type, param) ==
    CASE type = "unsigned long long" /\ param = "-1" -> "0"
      [] type = "double" /\ param = "0.500000" -> "0.5"
      [] type = "bool" -> (IF param = "true" THEN "1" ELSE "0")
      [] OTHER -> param

\* Mapper::getValue<V>: the getter of the result set for each type it names,
\* V{} for any other.
getValue(type, cell) ==
    CASE type \in {"int", "long long", "unsigned long long", "std::string", "double"}
            -> cell
      [] type = "bool" -> (IF cell = "1" THEN "true" ELSE "false")
      [] OTHER -> "0"

\* Mapper::mapRow: one getValue per field, in declaration order.
mapRow(fs, row) == [k \in DOMAIN fs |-> getValue(fs[k].type, row[k])]

\* The cell a column receives from a bound field.
Cell(d, f) == TypeMapping(f.type, addParam(d, bindValue(f.type, f.value)))

\* The values a DEFAULT clause of a column of strings may declare.
Defaults == {"", "d"}

\* The row an executed INSERT adds: the next id in an auto-increment column, the
\* declared default in any other column the statement does not list.
Inserted(d, fs, id, default) ==
    [k \in DOMAIN fs |->
        IF isAutoIncrement(fs[k].tags) THEN ToString(id)
        ELSE IF shouldSkipInsert(fs[k]) THEN default
        ELSE Cell(d, fs[k])]

\* A row the WHERE clause of update and remove selects: every primary-key
\* column equals the bound key value.
Selected(d, fs, row) ==
    /\ \E k \in DOMAIN fs : isPrimaryKey(fs[k].tags)
    /\ \A k \in DOMAIN fs : isPrimaryKey(fs[k].tags) => row[k] = Cell(d, fs[k])

\* The result sets the database may answer a SELECT with: the whole table for
\* the bare statement, otherwise any rows of the table in any order, one at
\* most under LIMIT 1 and none under LIMIT 0.
Answers(text, rows) ==
    LET n == Len(rows)
        cap == IF \E k \in DOMAIN text : text[k] = " LIMIT 1" THEN 1
               ELSE IF \E k \in 1..(Len(text) - 1) : text[k] = " LIMIT " /\ text[k + 1] = "0"
                    THEN 0 ELSE n
        picks == UNION {{f \in [1..m -> 1..n] : \A a, b \in 1..m : f[a] = f[b] => a = b} :
                           m \in 0..n}
    IN  IF Len(text) = 2 THEN {rows}
        ELSE {[j \in DOMAIN f |-> rows[f[j]]] : f \in {g \in picks : Len(g) <= cap}}

(***************************************************************************)
(* The public operations of Mapper.                                        *)
(***************************************************************************)
save(out) ==
    /\ results' = <<>>
    /\ returned' = <<>>
    /\ \/ NoDialectReturn("save", "false") /\ UNCHANGED table
       \/ /\ Run("save", InsertSql(driver, fields), InsertBinds(fields), out, "true")
          /\ IF out = Done
                THEN /\ Len(table) < MaxRows
                     /\ \E default \in Defaults :
                           table' = Append(table, Inserted(driver, fields, Len(table) + 1,
                                                           default))
                ELSE UNCHANGED table

update(out) ==
    /\ results' = <<>>
    /\ returned' = <<>>
    /\ \/ NoDialectReturn("update", "false") /\ UNCHANGED table
       \/ /\ Run("update", UpdateSql(driver, fields), UpdateBinds(fields), out, "true")
          /\ table' =
                IF out = Done
                THEN [j \in DOMAIN table |->
                        IF Selected(driver, fields, table[j])
                        THEN [k \in DOMAIN fields |->
                                IF isPrimaryKey(fields[k].tags) THEN table[j][k]
                                ELSE Cell(driver, fields[k])]
                        ELSE table[j]]
                ELSE table

remove(out) ==
    /\ results' = <<>>
    /\ returned' = <<>>
    /\ \/ NoDialectReturn("remove", "false") /\ UNCHANGED table
       \/ /\ Run("remove", DeleteSql(driver, fields), DeleteBinds(fields), out, "true")
          /\ table' =
                IF out = Done
                THEN LET Kept(row) == ~Selected(driver, fields, row)
                     IN  SelectSeq(table, Kept)
                ELSE table

\* truncate runs its text through createStatement and execute; it binds nothing.
truncate(out) ==
    /\ results' = <<>>
    /\ returned' = <<>>
    /\ \/ NoDialectReturn("truncate", "false") /\ UNCHANGED table
       \/ /\ Run("truncate", <<"TRUNCATE TABLE ", quoteIdentifier(driver, TableName)>>,
                 <<>>, out, "true")
          /\ table' = IF out = Done THEN <<>> ELSE table

\* The bind loop of executeQuery: the k-th argument at index k.
Indexed(args) == [k \in 1..Len(args) |-> [index |-> k, value |-> args[k]]]

\* The bind loops of executeQueryWithParams and count: bindSqlValue(pstmt, i + 1,
\* params[i]) calls bindValue for every alternative but std::nullptr_t.
bindSqlValue(params) ==
    LET Binds(b) == b.value # Null
    IN  SelectSeq(Indexed(params), Binds)

\* The parameters the prepared statement holds after the bind calls, by
\* placeholder position.  MySQLPreparedStatement passes the index of each call to
\* the driver, which leaves Null where no call named the position;
\* PostgreSQLPreparedStatement drops the index and appends std::to_string of the
\* value to params_.
Parameters(d, binds) ==
    IF d = "postgresql"
    THEN [k \in DOMAIN binds |-> ToString(binds[k].value)]
    ELSE LET top == IF binds = <<>> THEN 0 ELSE binds[Len(binds)].index
         IN  [k \in 1..top |->
                IF \E j \in DOMAIN binds : binds[j].index = k
                THEN (CHOOSE b \in Range(binds) : b.index = k).value
                ELSE Null]

\* findOne and selectOne returning the last element of the list.
BackOf(list) == IF list = <<>> THEN <<>> ELSE <<list[Len(list)]>>

\* if (list.empty()) return std::nullopt; return list[0];
FrontOf(list) == IF list = <<>> THEN <<>> ELSE <<list[1]>>

\* executeQuery and executeQueryWithParams, called by operation o with its text
\* and bind calls; one: the caller returns an optional made of the list.
executeQuery(o, text, binds, out, one) ==
    \E rows \in IF out = Done THEN Answers(text, table) ELSE {<<>>} :
        LET list == [j \in DOMAIN rows |-> mapRow(fields, rows[j])]
        IN  /\ Run(o, text, binds, out,
                   IF ~one THEN "rows" ELSE IF list = <<>> THEN "nullopt" ELSE "optional")
            /\ results' = rows
            /\ returned' = IF one THEN FrontOf(list) ELSE list
            /\ UNCHANGED table

\* An operation returning its default for want of a dialect.
NoDialectDefault(o, value) ==
    /\ NoDialectReturn(o, value)
    /\ results' = <<>>
    /\ returned' = <<>>
    /\ UNCHANGED table

SelectFrom == <<"SELECT * FROM ", quoteIdentifier(driver, TableName)>>

Where(clause) == IF empty(clause) THEN <<>> ELSE <<" WHERE ">> \o clause

\* The where clauses and arguments callers pass to find and findOne.
FindInputs ==
    {[where |-> <<>>, args |-> <<>>],
     [where |-> <<"x = ", "?">>, args |-> <<"1">>]}

findAll(out) ==
    \/ NoDialectDefault("findAll", "empty")
    \/ executeQuery("findAll", SelectFrom, <<>>, out, FALSE)

findOne(input, out) ==
    \/ NoDialectDefault("findOne", "nullopt")
    \/ executeQuery("findOne", SelectFrom \o Where(input.where) \o <<" LIMIT 1">>,
                    Indexed(input.args), out, TRUE)

find(input, out) ==
    \/ NoDialectDefault("find", "empty")
    \/ executeQuery("find", SelectFrom \o Where(input.where), Indexed(input.args), out,
                    FALSE)

\* select with the paging clauses ahead of the ordering clause.
SelectSqlPagingFirst ==
    SelectFrom \o Where(whereClause_) \o limitClause_ \o offsetClause_ \o orderByClause_

\* select and selectOne read the Query through its getters.
SelectSql ==
    SelectFrom \o Where(whereClause_) \o orderByClause_ \o limitClause_ \o offsetClause_

select(out) ==
    \/ NoDialectDefault("select", "empty")
    \/ executeQuery("select", SelectSql, bindSqlValue(params_), out, FALSE)

selectOne(out) ==
    \/ NoDialectDefault("selectOne", "nullopt")
    \/ executeQuery("selectOne", SelectSql, bindSqlValue(params_), out, TRUE)

\* count returns the first column of the first row of its result set.
count(out) ==
    \/ NoDialectDefault("count", "0")
    \/ LET text == <<"SELECT COUNT(*) FROM ", quoteIdentifier(driver, TableName)>>
                      \o Where(whereClause_)
       IN  \E rows \in IF out = Done THEN Answers(text, table) ELSE {<<>>} :
              /\ Run("count", text, bindSqlValue(params_), out, "count")
              /\ results' = IF out = Done THEN <<<<ToString(Len(rows))>>>> ELSE <<>>
              /\ returned' = IF out = Done THEN <<ToString(Len(rows))>> ELSE <<>>
              /\ UNCHANGED table

(***************************************************************************)
(* Specifications.  Spec: threads that use the pool directly.  MapperSpec: *)
(* threads that run Mapper and Schema operations as well.                  *)
(***************************************************************************)
Next ==
    \/ ConnectionPool /\ UNCHANGED <<queryVars, stmtVars>>
    \/ initializePool /\ UNCHANGED <<queryVars, stmtVars>>
    \/ ConstructorReturn /\ UNCHANGED <<queryVars, stmtVars>>
    \/ \E w \in Workers : BeginDirect(w) /\ UNCHANGED <<queryVars, stmtVars>>
    \/ \E w \in Workers : GetConnection(w) /\ UNCHANGED <<queryVars, stmtVars>>
    \/ \E w \in Workers : OverflowCreate(w) /\ UNCHANGED <<queryVars, stmtVars>>
    \/ \E w \in Workers : Wake(w) /\ UNCHANGED <<queryVars, stmtVars>>
    \/ \E w \in Workers : IsValid(w) /\ UNCHANGED <<queryVars, stmtVars>>
    \/ \E w \in Workers : CallReturns(w) /\ UNCHANGED <<queryVars, stmtVars>>
    \/ \E w \in Workers : ReleaseConnection(w) /\ UNCHANGED <<queryVars, stmtVars>>

MapperNext ==
    \/ ConnectionPool /\ UNCHANGED <<queryVars, stmtVars>>
    \/ initializePool /\ UNCHANGED <<queryVars, stmtVars>>
    \/ ConstructorReturn /\ UNCHANGED <<queryVars, stmtVars>>
    \/ \E w \in Workers : Begin(w) /\ UNCHANGED <<queryVars, stmtVars>>
    \/ \E w \in Workers : GetConnection(w) /\ UNCHANGED <<queryVars, stmtVars>>
    \/ \E w \in Workers : OverflowCreate(w) /\ UNCHANGED <<queryVars, stmtVars>>
    \/ \E w \in Workers : Wake(w) /\ UNCHANGED <<queryVars, stmtVars>>
    \/ \E w \in Workers : IsValid(w) /\ UNCHANGED <<queryVars, stmtVars>>
    \/ \E w \in Workers : CallReturns(w) /\ UNCHANGED <<queryVars, stmtVars>>
    \/ \E w \in Workers : CallThrows(w) /\ UNCHANGED <<queryVars, stmtVars>>
    \/ \E w \in Workers : ReleaseConnection(w) /\ UNCHANGED <<queryVars, stmtVars>>

Spec == Init /\ [][Next]_vars

MapperSpec == MapperInit /\ [][MapperNext]_vars

\* Threads that can run do run: the constructor finishes, a thread inside
\* getConnection, a statement call or the deleter takes its next step, and a
\* notified waiter returns from cond_.wait.  Nothing makes an idle caller start
\* an operation, and nothing makes cond_.wait return without a notify.
Fairness ==
    /\ WF_vars(ConnectionPool)
    /\ WF_vars(initializePool)
    /\ WF_vars(ConstructorReturn)
    /\ \A w \in 1..NumWorkers :
          /\ WF_vars(GetConnection(w))
          /\ WF_vars(OverflowCreate(w))
          /\ WF_vars(NotifiedWake(w))
          /\ WF_vars(IsValid(w))
          /\ WF_vars(CallReturns(w))
          /\ WF_vars(ReleaseConnection(w))

FairSpec == FairInit /\ [][Next]_vars /\ Fairness

\* One thread building one Query object; the pool is not touched.
QueryInit == InitWith(NumWorkers, {FairPoolSize}) /\ driver = "mysql"

QueryNext ==
    \/ or_ /\ UNCHANGED <<vars, stmtVars>>
    \/ and_ /\ UNCHANGED <<vars, stmtVars>>
    \/ \E c \in NextColumn : eq(c, NextValues(1)[1]) /\ UNCHANGED <<vars, stmtVars>>
    \/ \E c \in NextColumn : ne(c, NextValues(1)[1]) /\ UNCHANGED <<vars, stmtVars>>
    \/ \E c \in NextColumn : gt(c, NextValues(1)[1]) /\ UNCHANGED <<vars, stmtVars>>
    \/ \E c \in NextColumn : lt(c, NextValues(1)[1]) /\ UNCHANGED <<vars, stmtVars>>
    \/ \E c \in NextColumn : ge(c, NextValues(1)[1]) /\ UNCHANGED <<vars, stmtVars>>
    \/ \E c \in NextColumn : le(c, NextValues(1)[1]) /\ UNCHANGED <<vars, stmtVars>>
    \/ \E c \in NextColumn : like(c, NextValues(1)[1]) /\ UNCHANGED <<vars, stmtVars>>
    \/ \E c \in NextColumn : isNull(c) /\ UNCHANGED <<vars, stmtVars>>
    \/ \E c \in NextColumn : isNotNull(c) /\ UNCHANGED <<vars, stmtVars>>
    \/ \E c \in NextColumn : between(c, NextValues(2)[1], NextValues(2)[2]) /\ UNCHANGED <<vars, stmtVars>>
    \/ \E c \in NextColumn, n \in InSizes : in(c, NextValues(n)) /\ UNCHANGED <<vars, stmtVars>>
    \/ \E c \in NextColumn, n \in InSizes : notIn(c, NextValues(n)) /\ UNCHANGED <<vars, stmtVars>>

QuerySpec == QueryInit /\ [][QueryNext]_queryVars

\* One thread building one Query object with the ordering and paging methods,
\* between predicates.
FrameNext ==
    \/ or_ /\ UNCHANGED <<vars, stmtVars>>
    \/ and_ /\ UNCHANGED <<vars, stmtVars>>
    \/ \E c \in NextColumn : eq(c, NextValues(1)[1]) /\ UNCHANGED <<vars, stmtVars>>
    \/ \E c \in NextOrderColumn, asc \in BOOLEAN : orderBy(c, asc) /\ UNCHANGED <<vars, stmtVars>>
    \/ \E n \in LimitValues : limit(n) /\ UNCHANGED <<vars, stmtVars>>
    \/ \E n \in OffsetValues : offset(n) /\ UNCHANGED <<vars, stmtVars>>

FrameSpec == QueryInit /\ [][FrameNext]_queryVars

\* One thread running save, update and remove on an entity of any registered
\* type, over a pool whose driver is any of the three.
StmtInit ==
    /\ Unbuilt(NumCallers, {CallerPoolSize})
    /\ Query
    /\ NoStatement
    /\ fields \in Entities

StmtNext ==
    \/ \E out \in DriverOutcomes : save(out) /\ UNCHANGED <<vars, queryVars>>
    \/ \E out \in DriverOutcomes : update(out) /\ UNCHANGED <<vars, queryVars>>
    \/ \E out \in DriverOutcomes : remove(out) /\ UNCHANGED <<vars, queryVars>>

StmtSpec == StmtInit /\ [][StmtNext]_stmtVars

\* The entity type of the examples: an auto-increment key and a string.
User ==
    <<[column |-> "x", tags |-> {"PRIMARY KEY", "AUTO_INCREMENT"}, type |-> "int",
       value |-> "1"],
      [column |-> "y", tags |-> {}, type |-> "std::string", value |-> "s2"]>>

\* One thread building a Query and running every Mapper operation, any call of
\* the try block throwing any class of exception.
ErrorInit ==
    /\ Unbuilt(NumCallers, {CallerPoolSize})
    /\ Query
    /\ NoStatement
    /\ fields = User

ErrorNext ==
    \/ \E c \in NextColumn : eq(c, NextValues(1)[1]) /\ UNCHANGED <<vars, stmtVars>>
    \/ \E out \in AllOutcomes : save(out) /\ UNCHANGED <<vars, queryVars>>
    \/ \E out \in AllOutcomes : update(out) /\ UNCHANGED <<vars, queryVars>>
    \/ \E out \in AllOutcomes : remove(out) /\ UNCHANGED <<vars, queryVars>>
    \/ \E out \in AllOutcomes : truncate(out) /\ UNCHANGED <<vars, queryVars>>
    \/ \E out \in AllOutcomes : findAll(out) /\ UNCHANGED <<vars, queryVars>>
    \/ \E input \in FindInputs, out \in AllOutcomes :
          findOne(input, out) /\ UNCHANGED <<vars, queryVars>>
    \/ \E input \in FindInputs, out \in AllOutcomes :
          find(input, out) /\ UNCHANGED <<vars, queryVars>>
    \/ \E out \in AllOutcomes : select(out) /\ UNCHANGED <<vars, queryVars>>
    \/ \E out \in AllOutcomes : selectOne(out) /\ UNCHANGED <<vars, queryVars>>
    \/ \E out \in AllOutcomes : count(out) /\ UNCHANGED <<vars, queryVars>>

ErrorSpec == ErrorInit /\ [][ErrorNext]_<<queryVars, stmtVars>>

\* One thread filling the table, building a Query whose parameters may be null,
\* and reading the table back through the Query and through findOne.
SelectNext ==
    \/ \E c \in NextColumn, v \in {Null, NextValues(1)[1]} :
          eq(c, v) /\ UNCHANGED <<vars, stmtVars>>
    \/ \E c \in NextOrderColumn : orderBy(c, TRUE) /\ UNCHANGED <<vars, stmtVars>>
    \/ \E n \in LimitValues : limit(n) /\ UNCHANGED <<vars, stmtVars>>
    \/ offset(20) /\ UNCHANGED <<vars, stmtVars>>
    \/ save(Done) /\ UNCHANGED <<vars, queryVars>>
    \/ \E input \in FindInputs, out \in DriverOutcomes :
          findOne(input, out) /\ UNCHANGED <<vars, queryVars>>
    \/ \E out \in DriverOutcomes : select(out) /\ UNCHANGED <<vars, queryVars>>
    \/ \E out \in DriverOutcomes : selectOne(out) /\ UNCHANGED <<vars, queryVars>>
    \/ \E out \in DriverOutcomes : count(out) /\ UNCHANGED <<vars, queryVars>>

SelectSpec == ErrorInit /\ [][SelectNext]_<<queryVars, stmtVars>>

\* DataBaseConfigData::isValid
isValid(c) ==
    /\ c.hostname # ""
    /\ c.port > 0 /\ c.port < 65535
    /\ c.username # ""
    /\ c.password # ""
    /\ c.dataname # ""
    /\ c.poolsize > 0

\* The files readDataBaseconfig is given: one that cannot be opened or parsed or
\* lacks a key (readable FALSE), or one with every key, the driver key absent ("")
\* or not; the ports on both sides of each end of the range.
ConfigFiles ==
    [readable : BOOLEAN, driver : {"", "mysql", "postgres", "postgresql"},
     hostname : {"", "h"}, port : {-1, 0, 1, 65534, 65535, 65536},
     username : {"", "u"}, password : {"", "p"}, dataname : {"", "n"},
     poolsize : {0, 1}]

\* ConfigManager::readDataBaseconfig: every throw leaves as ConfigurationError;
\* the fields are assigned before isValid is asked.
readDataBaseconfig(file) ==
    IF ~file.readable
    THEN /\ configRead' = "ConfigurationError"
         /\ UNCHANGED databaseconfigdata_
    ELSE /\ databaseconfigdata_' =
               [driver_type |-> IF file.driver \in {"postgres", "postgresql"}
                                THEN "PostgreSQL" ELSE "MySQL",
                hostname |-> file.hostname, port |-> file.port,
                username |-> file.username, password |-> file.password,
                dataname |-> file.dataname, poolsize |-> file.poolsize]
         /\ configRead' = IF isValid(databaseconfigdata_') THEN "ok"
                          ELSE "ConfigurationError"

\* One thread reading configuration files, before the pool is built.
ConfigNext ==
    \E file \in ConfigFiles :
        /\ readDataBaseconfig(file)
        /\ UNCHANGED <<driver, poolsize, ctorVars, poolVars, callerVars, queryVars, stmtVars>>

ConfigSpec == MapperInit /\ [][ConfigNext]_vars

\* The fields of each mappable type, with and without a DEFAULT constraint, and
\* values of the type: the ends of its range where the conversions differ.
ScalarFields ==
    {[column |-> "y", tags |-> t, type |-> v[1], value |-> v[2]] :
        t \in {{}, {"DEFAULT"}},
        v \in {<<"int", "-5">>, <<"long long", "9000000000">>, <<"unsigned int", "7">>,
               <<"unsigned long long", "5">>,
               <<"unsigned long long", "18446744073709551615">>,
               <<"std::string", "">>, <<"std::string", "s">>,
               <<"bool", "true">>, <<"bool", "false">>,
               <<"double", "0.5">>, <<"double", "0.1234567">>}}

\* One thread saving an entity of a type with an auto-increment key and one
\* scalar field into the created table, and reading the table back with an
\* empty Query.
RoundTripNext ==
    \/ \E out \in DriverOutcomes : save(out) /\ UNCHANGED <<vars, queryVars>>
    \/ \E out \in DriverOutcomes : select(out) /\ UNCHANGED <<vars, queryVars>>

RoundTripInit ==
    /\ Unbuilt(NumCallers, {CallerPoolSize})
    /\ Query
    /\ NoStatement
    /\ fields \in {<<User[1], f>> : f \in ScalarFields}

RoundTripSpec == RoundTripInit /\ [][RoundTripNext]_stmtVars


(***************************************************************************)
(* Properties.                                                             *)
(***************************************************************************)
\* Connections a caller has: the candidate inside getConnection and those its
\* connPtr owns.
Borrowed(w) == held[w] \cup ({conn[w]} \ {NoConn})

\* Live connections: queued in the pool or borrowed by a caller.
Live == Len(connections_) + Cardinality(UNION {Borrowed(w) : w \in Workers})

\* C1: at every instant the number of live connections (queued plus borrowed) is
\* at most the configured pool size plus one.
C1_LiveWithinPoolSizePlusOne == Live <= poolsize + 1

\* C2: no reachable state is a deadlock: while some worker is inside acquire ->
\* work -> release, some worker inside it can take its next step, without any
\* idle worker having to start another operation.
C2_NoDeadlockedWorker ==
    (\E w \in Workers : pc[w] # "idle")
        => ENABLED (\E w \in Workers :
                       \/ GetConnection(w)
                       \/ OverflowCreate(w)
                       \/ Wake(w)
                       \/ IsValid(w)
                       \/ CallReturns(w)
                       \/ ReleaseConnection(w))

\* C3: every connection is owned by exactly one party: it is in the queue once, or
\* borrowed by one caller, never both, never by two callers, never twice in the queue.
C3_ExclusiveOwnership ==
    \A c \in InUse \ {NoConn} :
        Occurrences(connections_, c)
          + Cardinality({w \in Workers : c \in Borrowed(w)}) = 1

C3_Witness ==
    /\ connections_ # <<>>
    /\ \E w1 \in Workers, w2 \in Workers :
          /\ w1 # w2
          /\ held[w1] # {}
          /\ conn[w2] # NoConn

\* C4: a caller that getConnection returned a connection to holds one that passed
\* isValid() after it was popped or created; a candidate found invalid is replaced,
\* and when the replacement fails the caller gets ConnectionError and no connection.
C4_ReturnedConnectionsProbed ==
    \A w \in Workers :
        /\ pc[w] \in BodyCalls => (held[w] # {} /\ validated[w])
        /\ result[w] = "ConnectionError" => (pc[w] = "idle" /\ Borrowed(w) = {})

C4_Witness ==
    \E w1 \in Workers, w2 \in Workers :
        /\ pc[w1] \in BodyCalls
        /\ validated[w1]
        /\ result[w2] = "ConnectionError"

C6_NoWaitWithoutLiveConnection ==
    \A w \in Workers : pc[w] = "wait" => Live > 0

\* C7: when an operation ends, on any exit path, the caller owns no connection
\* and the connection getConnection returned to it is in the pool's queue.
C7_ReleasedOnEveryExit ==
    [][\A w \in Workers :
          (pc[w] # "idle" /\ pc'[w] = "idle")
             => /\ held[w] \subseteq Range(connections_')
                /\ held'[w] = {}
                /\ conn'[w] = NoConn]_vars

C7_Witness ==
    \E w \in Workers :
        /\ pc[w] = "idle"
        /\ result[w] = "SqlError"
        /\ held[w] = {}
        /\ connections_ # <<>>

\* C8: a release never waits for another thread: whenever a caller is about to
\* run releaseConnection, mutex_ is free.
C8_ReleaseNeverBlocks ==
    \A w \in Workers : pc[w] = "releaseConnection" => mutex_ = NoOwner

\* C9 as stated: every finished Mapper operation called getConnection exactly once.
C9_AcquiresExactlyOnce ==
    \A w \in Workers :
        (pc[w] = "idle" /\ result[w] \in {"ok", "SqlError", "ConnectionError", "default"})
            => acquireCalls[w] = 1

\* C9 as amended: an operation never holds two connections and calls
\* getConnection at most once: exactly once when it got past the dialect test,
\* not at all when it found dialect_ null and returned its default result.
C9_AcquiresOnceUnlessNoDialect ==
    \A w \in Workers :
        /\ Cardinality(Borrowed(w)) <= 1
        /\ acquireCalls[w] <= 1
        /\ (pc[w] = "idle" /\ result[w] \in {"ok", "SqlError", "ConnectionError"})
              => acquireCalls[w] = 1
        /\ (pc[w] = "idle" /\ result[w] = "default")
              => (acquireCalls[w] = 0 /\ ~dialect_)

C9_Witness ==
    \E w \in Workers :
        /\ pc[w] = "idle"
        /\ result[w] = "ok"
        /\ acquireCalls[w] = 1

\* C10: the constructor makes exactly poolsize attempts to open a connection and
\* leaves in the queue exactly the connections that opened and were valid.
C10_WarmUpKeepsValidConnections ==
    /\ [][(phase = "initializePool" /\ phase' = "ready")
             => /\ attempts = poolsize
                /\ connections_' = opened
                /\ Len(opened) <= poolsize]_vars
    /\ [](phase = "initializePool"
             => /\ attempts = i
                /\ i <= poolsize
                /\ connections_ = opened)

C10_Witness ==
    /\ phase = "initializePool"
    /\ attempts = poolsize
    /\ Len(connections_) < poolsize


(***************************************************************************)
(* Properties of the Query builder.                                        *)
(***************************************************************************)
\* What precedes a fragment appended now: the pending connector between spaces
\* when the WHERE text is not empty, nothing otherwise.
Lead == IF Text(whereClause_) = "" THEN "" ELSE " " \o nextConnector_ \o " "

\* A step that appends the text t as one fragment.
Appends(t) == Text(whereClause_') = Text(whereClause_) \o Lead \o t

\* C11: the connector emitted before a predicate is OR exactly when or_() was the
\* last connector call since the previous predicate; after every predicate the
\* pending connector is AND again.
C11_OrAffectsNextPredicateOnly ==
    [][predicates' = predicates + 1
          => /\ ~empty(whereClause_)
                  => /\ Len(whereClause_') > Len(whereClause_) + 1
                     /\ whereClause_'[Len(whereClause_) + 1]
                           = (IF pendingCall = "or_" THEN " OR " ELSE " AND ")
             /\ empty(whereClause_)
                  => whereClause_'[1] \notin {" OR ", " AND "}
             /\ nextConnector_' = "AND"]_queryVars

C11_Witness ==
    /\ Text(whereClause_) = "x = ? OR y = ? AND z = ?"
    /\ params_ = <<1, 2, 3>>

\* C12: every predicate method appends its one fragment, preceded by the pending
\* connector exactly when the WHERE text was not empty, and leaves the pending
\* connector AND.
C12_PredicateAppendsOneFragment ==
    [][\A c \in NextColumn :
          /\ eq(c, NextValues(1)[1]) => Appends(c \o " = ?")
          /\ ne(c, NextValues(1)[1]) => Appends(c \o " != ?")
          /\ gt(c, NextValues(1)[1]) => Appends(c \o " > ?")
          /\ lt(c, NextValues(1)[1]) => Appends(c \o " < ?")
          /\ ge(c, NextValues(1)[1]) => Appends(c \o " >= ?")
          /\ le(c, NextValues(1)[1]) => Appends(c \o " <= ?")
          /\ like(c, NextValues(1)[1]) => Appends(c \o " LIKE ?")
          /\ isNull(c) => Appends(c \o " IS NULL")
          /\ isNotNull(c) => Appends(c \o " IS NOT NULL")
          /\ between(c, NextValues(2)[1], NextValues(2)[2])
                => Appends(c \o " BETWEEN ? AND ?")
          /\ in(c, NextValues(2)) => Appends(c \o " IN (?, ?)")
          /\ in(c, <<>>) => Appends("1=0")
          /\ notIn(c, NextValues(2)) => Appends(c \o " NOT IN (?, ?)")
          /\ notIn(c, <<>>) => Appends("1=1")
          /\ predicates' = predicates + 1 => nextConnector_' = "AND"]_queryVars

C12_Witness ==
    /\ predicates = 3
    /\ \E k \in DOMAIN whereClause_ : whereClause_[k] = " IS NULL"
    /\ \E k \in DOMAIN whereClause_ : whereClause_[k] = " NOT IN ("
    /\ \E k \in DOMAIN whereClause_ : whereClause_[k] = " OR "

\* C13: the parameter list is as long as the WHERE text has placeholders, and it
\* holds the values the caller passed, in the order of their placeholders.
C13_ParamsMatchPlaceholders ==
    /\ Len(params_) = Len(SelectSeq(whereClause_, LAMBDA p : p = "?"))
    /\ params_ = supplied

C13_Witness ==
    /\ Len(params_) = 5
    /\ \E k \in DOMAIN whereClause_ : whereClause_[k] = " IN ("
    /\ \E k \in DOMAIN whereClause_ : whereClause_[k] = " BETWEEN "

\* C14: in with no values appends 1=0 and notIn with no values appends 1=1, after
\* the pending connector if the WHERE text is not empty; neither adds a parameter
\* or a parenthesis.
C14_EmptyInShortCircuits ==
    [][\A c \in NextColumn :
          /\ in(c, <<>>)
                => /\ whereClause_' = whereClause_ \o (IF Lead = "" THEN <<>> ELSE <<Lead>>) \o <<"1=0">>
                   /\ params_' = params_
          /\ notIn(c, <<>>)
                => /\ whereClause_' = whereClause_ \o (IF Lead = "" THEN <<>> ELSE <<Lead>>) \o <<"1=1">>
                   /\ params_' = params_]_queryVars

C14_Witness ==
    /\ \E k \in DOMAIN whereClause_ :
          k > 1 /\ whereClause_[k] = "1=0" /\ whereClause_[k - 1] = " OR "
    /\ \E k \in DOMAIN whereClause_ :
          k > 1 /\ whereClause_[k] = "1=1" /\ whereClause_[k - 1] = " AND "

\* C15: between appends the single fragment "col BETWEEN ? AND ?" and the two
\* parameters lo, hi, in that order, after the parameters already in the list.
C15_BetweenAppendsLoThenHi ==
    [][\A c \in NextColumn :
          between(c, NextValues(2)[1], NextValues(2)[2])
             => /\ Text(whereClause_') = Text(whereClause_) \o Lead \o c \o " BETWEEN ? AND ?"
                /\ params_' = params_ \o <<NextValues(2)[1], NextValues(2)[2]>>]_queryVars

C15_Witness ==
    /\ Text(whereClause_) = "x = ? OR y BETWEEN ? AND ?"
    /\ params_ = <<1, 2, 3>>

\* The ORDER BY clause listing the given terms.
RECURSIVE OrderTerms(_)
OrderTerms(ts) ==
    IF ts = <<>> THEN ""
    ELSE (IF Len(ts) = 1 THEN "" ELSE OrderTerms(SubSeq(ts, 1, Len(ts) - 1)) \o ", ")
            \o ts[Len(ts)][1] \o (IF ts[Len(ts)][2] THEN " ASC" ELSE " DESC")

\* C16: after n orderBy calls the ORDER BY clause lists the n terms passed, comma
\* separated, in call order, each with its own direction.
C16_OrderByCumulative ==
    Text(orderByClause_) =
        (IF ordered = <<>> THEN "" ELSE " ORDER BY " \o OrderTerms(ordered))

C16_Witness ==
    Text(orderByClause_) = " ORDER BY x DESC, y ASC, z DESC"

(***************************************************************************)
(* Properties of the statements built by the Mapper.                       *)
(***************************************************************************)
\* C17: update on a type with no PRIMARY KEY field fails with an OrmError and
\* never hands an UPDATE statement to prepareStatement.
C17_UpdateWithoutKeyRefused ==
    (/\ stmtOp = "update"
     /\ HasDialect(driver)
     /\ \A k \in 1..Len(fields) : "PRIMARY KEY" \notin fields[k].tags)
        => /\ surfaced.kind = "OrmError"
           /\ reached \notin {"prepare", "bind", "execute", "done"}

\* update on a type with no PRIMARY KEY field handed prepareStatement a text
\* ending with the bare WHERE keyword; the driver's refusal came back as SqlError.
C17_Witness ==
    /\ stmtOp = "update"
    /\ \A k \in 1..Len(fields) : "PRIMARY KEY" \notin fields[k].tags
    /\ reached = "prepare"
    /\ sql[Len(sql)] = " WHERE "
    /\ surfaced.kind = "SqlError"

\* The strings of a sequence joined with a separator.
RECURSIVE Joined(_, _)
Joined(ss, sep) ==
    IF ss = <<>> THEN ""
    ELSE IF Len(ss) = 1 THEN ss[1]
    ELSE Joined(SubSeq(ss, 1, Len(ss) - 1), sep) \o sep \o ss[Len(ss)]

\* C18: the INSERT of save lists the columns of the fields that are neither
\* auto-increment nor an empty string with a DEFAULT, in declaration order, has
\* one placeholder per listed column, and binds the value of the i-th listed
\* column at index i, counting from 1.
C18_InsertCoversSentFields ==
    LET Sent(f) ==
            /\ "AUTO_INCREMENT" \notin f.tags
            /\ ~(f.type = "std::string" /\ f.value = "" /\ "DEFAULT" \in f.tags)
        listed == SelectSeq(fields, Sent)
    IN
    (stmtOp = "save" /\ HasDialect(driver)) =>
        /\ Text(sql) =
              "INSERT INTO " \o quoteIdentifier(driver, TableName) \o " ("
                 \o Joined([k \in 1..Len(listed) |->
                               quoteIdentifier(driver, listed[k].column)], ", ")
                 \o ") VALUES ("
                 \o Joined([k \in 1..Len(listed) |-> "?"], ", ") \o ")"
                 \o (IF supportsReturningId(driver)
                     THEN " " \o getLastInsertIdSql(driver) ELSE "")
        /\ Cardinality({k \in 1..Len(sql) : sql[k] = "?"}) = Len(listed)
        /\ reached \in {"execute", "done"} =>
              bound = [k \in 1..Len(listed) |-> [index |-> k, value |-> listed[k].value]]

\* save of (x: empty string with DEFAULT, y: int): only y is listed and bound.
C18_Witness ==
    /\ stmtOp = "save"
    /\ reached = "done"
    /\ driver = "mysql"
    /\ Len(fields) = 2
    /\ fields[1].value = ""
    /\ fields[1].tags = {"DEFAULT"}
    /\ Text(sql) = "INSERT INTO 't' ('y') VALUES (?)"
    /\ bound = <<[index |-> 1, value |-> "2"]>>

\* C19: update binds the values of the non-key fields, then those of the key
\* fields, each group in declaration order and matching the SET and WHERE
\* placeholders; remove binds the key values only; the number of bound values
\* is the number of placeholders of the statement.
C19_KeysBoundLast ==
    LET IsKey(f) == "PRIMARY KEY" \in f.tags
        IsNotKey(f) == "PRIMARY KEY" \notin f.tags
        set == SelectSeq(fields, IsNotKey)
        key == SelectSeq(fields, IsKey)
        Terms(fs) == [k \in 1..Len(fs) |-> quoteIdentifier(driver, fs[k].column) \o " = ?"]
        Numbered(fs) == [k \in 1..Len(fs) |-> [index |-> k, value |-> fs[k].value]]
        placeholders == Cardinality({k \in 1..Len(sql) : sql[k] = "?"})
    IN
    /\ (stmtOp = "update" /\ HasDialect(driver)) =>
          /\ Text(sql) =
                "UPDATE " \o quoteIdentifier(driver, TableName) \o " SET "
                   \o Joined(Terms(set), ", ") \o " WHERE " \o Joined(Terms(key), " AND ")
          /\ reached \in {"execute", "done"} =>
                /\ bound = Numbered(set \o key)
                /\ Len(bound) = placeholders
    /\ (stmtOp = "remove" /\ HasDialect(driver)) =>
          /\ Text(sql) =
                "DELETE FROM " \o quoteIdentifier(driver, TableName) \o " WHERE "
                   \o Joined(Terms(key), " AND ")
          /\ reached \in {"execute", "done"} =>
                /\ bound = Numbered(key)
                /\ Len(bound) = placeholders

\* update of (x: key, y: not key): the value of y is bound first, x second.
C19_Witness ==
    /\ stmtOp = "update"
    /\ reached = "done"
    /\ driver = "mysql"
    /\ Len(fields) = 2
    /\ "PRIMARY KEY" \in fields[1].tags
    /\ "PRIMARY KEY" \notin fields[2].tags
    /\ Text(sql) = "UPDATE 't' SET 'y' = ? WHERE 'x' = ?"
    /\ bound = <<[index |-> 1, value |-> fields[2].value],
                 [index |-> 2, value |-> fields[1].value]>>

\* C20: an exception of one of the library's own kinds leaves a Mapper operation
\* unchanged; any other exception leaves it as one SqlError whose message is the
\* operation's prefix followed by the message of the exception; an operation in
\* which a call threw returns no value.
C20_FailuresSurface ==
    LET own == {"ConfigurationError", "ConnectionError", "SqlError", "OrmError"}
    IN
    /\ thrown.kind \in own =>
          surfaced = [kind |-> thrown.kind, what |-> thrown.what, value |-> "none"]
    /\ thrown.kind \notin own \cup {"none"} =>
          /\ surfaced = [kind |-> "SqlError", what |-> Prefix(stmtOp) \o thrown.what,
                         value |-> "none"]
          /\ Prefix(stmtOp) # ""
    /\ thrown.kind # "none" => surfaced.kind # "none" /\ surfaced.value = "none"
    /\ surfaced.kind # "none" => thrown.kind # "none"

\* A driver exception thrown by executeUpdate in save came out as one SqlError.
C20_Witness ==
    /\ stmtOp = "save"
    /\ reached = "execute"
    /\ thrown = [kind |-> "sql::SQLException", what |-> "m"]
    /\ surfaced = [kind |-> "SqlError", what |-> "save failed: m", value |-> "none"]

(***************************************************************************)
(* Properties of the operations over the pool, continued.                  *)
(***************************************************************************)
\* C21: when getConnection throws ConnectionError inside an operation, Mapper's
\* or Schema's, the caller of the operation receives that ConnectionError.
C21_ConnectionErrorPropagates ==
    [][\A w \in Workers :
          (pc[w] = "isValid" /\ pc'[w] = "idle")
             => result'[w] = "ConnectionError"]_vars

\* C22: when createStatement or execute throws inside createTable or dropTable,
\* the operation returns false, and when it ends the borrowed connection is in
\* the pool's queue and the caller owns none.
C22_DdlFailureIsFalse ==
    /\ [][\A w \in Workers :
            (CallThrows(w) /\ family[w] = "Schema")
               => /\ result'[w] = "false"
                  /\ pc'[w] = "releaseConnection"
                  /\ held'[w] # {}]_vars
    /\ [][\A w \in Workers :
            (family[w] = "Schema" /\ pc[w] = "releaseConnection" /\ pc'[w] = "idle")
               => /\ held[w] \subseteq Range(connections_')
                  /\ held'[w] = {}
                  /\ result'[w] \in {"ok", "false"}]_vars

\* A Schema operation whose statement call failed: false is its result and the
\* deleter of connPtr is about to return the connection.
C22_Witness ==
    \E w \in Workers :
        /\ family[w] = "Schema"
        /\ pc[w] = "releaseConnection"
        /\ result[w] = "false"
        /\ held[w] # {}

\* C27: every connection object created is queued, borrowed or deleted: none is
\* left allocated without an owner.
C27_NoConnectionLeftUnowned == ~leaked

\* C28: a caller blocked in cond_.wait leaves it, provided connections are
\* released again and again.
C28_NoWaiterStarved ==
    \A w \in 1..NumWorkers :
        ([]<>(\E v \in 1..NumWorkers : pc[v] = "releaseConnection"))
            => ((pc[w] = "wait") ~> (pc[w] # "wait"))

(***************************************************************************)
(* Properties of the Query builder, continued.                             *)
(***************************************************************************)
\* C30: a predicate call leaves the ORDER BY, LIMIT and OFFSET clauses as they
\* were; orderBy, limit and offset leave the WHERE text, the parameters and the
\* pending connector as they were; or_ and and_ change the connector only; so
\* an OR set by or_ is still pending when the next predicate is called.
C30_CallsKeepTheirFrame ==
    /\ [][predicates' # predicates
             => UNCHANGED <<orderByClause_, limitClause_, offsetClause_>>]_queryVars
    /\ [][(\/ \E c \in NextOrderColumn, asc \in BOOLEAN : orderBy(c, asc)
           \/ \E n \in LimitValues : limit(n)
           \/ \E n \in OffsetValues : offset(n))
             => UNCHANGED <<whereClause_, params_, nextConnector_>>]_queryVars
    /\ [][(or_ \/ and_)
             => UNCHANGED <<whereClause_, params_, orderByClause_, limitClause_,
                            offsetClause_>>]_queryVars
    /\ [](pendingCall = "or_" => nextConnector_ = "OR")

\* eq, or_, orderBy and limit were called, and the OR is still pending.
C30_Witness ==
    /\ predicates = 1
    /\ pendingCall = "or_"
    /\ nextConnector_ = "OR"
    /\ ordered # <<>>
    /\ limitClause_ # <<>>

(***************************************************************************)
(* Properties of the reading operations of Mapper.  A step that leaves the *)
(* Query alone and ends with stmtOp = o is a call of operation o.          *)
(***************************************************************************)
\* C23: findOne and selectOne hand their caller the first row of the result set,
\* mapped, or nothing when the result set is empty; the text of findOne ends
\* with LIMIT 1; the text of selectOne holds the limit clause of the Query and
\* no other, and still one entity at most is returned.
C23_FirstRowOrAbsent ==
    /\ [](/\ stmtOp \in {"findOne", "selectOne"}
          /\ reached = "done"
          => /\ returned = IF results = <<>> THEN <<>>
                           ELSE <<mapRow(fields, results[1])>>
             /\ surfaced.value = IF results = <<>> THEN "nullopt" ELSE "optional")
    /\ [](stmtOp = "findOne" /\ reached # "none" => sql[Len(sql)] = " LIMIT 1")
    /\ [][stmtOp' = "selectOne" /\ reached' # "none" /\ UNCHANGED queryVars
            => LET limits == {k \in DOMAIN sql' : sql'[k] \in {" LIMIT ", " LIMIT 1"}}
               IN  /\ Cardinality(limits) = IF limitClause_ = <<>> THEN 0 ELSE 1
                   /\ \A k \in limits : <<sql'[k], sql'[k + 1]>> = limitClause_
                   /\ Len(returned') <= 1]_<<queryVars, stmtVars>>

C23_Witness ==
    /\ stmtOp = "selectOne"
    /\ reached = "done"
    /\ Len(results) = 2
    /\ returned = <<mapRow(fields, results[1])>>
    /\ \A k \in DOMAIN sql : sql[k] # " LIMIT "

\* C26: the text of select is SELECT * FROM the table, WHERE and the where
\* clause of the Query when that clause is not empty, then its ORDER BY, LIMIT
\* and OFFSET clauses in this order; the bind calls name the positions of the
\* parameters in the list, in increasing order, each with its parameter.
C26_SelectAssembly ==
    [][stmtOp' = "select" /\ reached' # "none" /\ UNCHANGED queryVars
        => /\ sql' = <<"SELECT * FROM ", quoteIdentifier(driver, TableName)>>
                       \o (IF whereClause_ = <<>> THEN <<>> ELSE <<" WHERE ">> \o whereClause_)
                       \o orderByClause_ \o limitClause_ \o offsetClause_
           /\ reached' \in {"execute", "done"}
                => /\ \A k \in DOMAIN params_ : params_[k] # Null
                          => [index |-> k, value |-> params_[k]] \in Range(bound')
                   /\ \A j \in DOMAIN bound' :
                          /\ bound'[j].index \in DOMAIN params_
                          /\ bound'[j].value = params_[bound'[j].index]
                          /\ j > 1 => bound'[j - 1].index < bound'[j].index]_<<queryVars, stmtVars>>

C26_Witness ==
    /\ stmtOp = "select"
    /\ reached = "done"
    /\ bound # <<>>
    /\ \E a, b, c, d \in DOMAIN sql :
          /\ a < b /\ b < c /\ c < d
          /\ sql[a] = " WHERE " /\ sql[b] = " ORDER BY " /\ sql[c] = " LIMIT "
          /\ sql[d] = " OFFSET "

\* C29: after the bind calls of select, selectOne and count, the prepared
\* statement holds every parameter of the Query that is not null at the
\* position of that parameter in the list, whichever wrapper made the statement.
C29_ParametersKeepTheirPosition ==
    [][/\ stmtOp' \in {"select", "selectOne", "count"}
       /\ reached' \in {"execute", "done"}
       /\ UNCHANGED queryVars
       => LET kept == Parameters(driver, bound')
          IN  \A k \in DOMAIN params_ : params_[k] # Null
                 => /\ k \in DOMAIN kept
                    /\ kept[k] = IF driver = "postgresql" THEN ToString(params_[k])
                                 ELSE params_[k]]_<<queryVars, stmtVars>>

\* C24: the entities an unfiltered select returns after saves of one entity
\* into the created table equal that entity in every field but the
\* auto-increment one, whatever the type of the field and with or without a
\* DEFAULT constraint.
C24_RoundTrip ==
    /\ stmtOp = "select"
    /\ reached = "done"
    /\ Len(sql) = 2
    => \A j \in DOMAIN returned : \A k \in DOMAIN fields :
          ~isAutoIncrement(fields[k].tags) => returned[j][k] = fields[k].value

\* An unsigned int field comes back as 0.
C24_Witness ==
    /\ stmtOp = "select"
    /\ reached = "done"
    /\ fields[2].type = "unsigned int"
    /\ fields[2].value = "7"
    /\ results = <<<<"1", "7">>>>
    /\ returned = <<<<"1", "0">>>>

(***************************************************************************)
(* Properties of the configuration.                                        *)
(***************************************************************************)
\* C25: the configuration read last is valid exactly when its host, user name,
\* password and database name are not empty, its port is one of 1..65535 and
\* its pool size is above 0, and only such a configuration is accepted.
C25_ValidExactly ==
    LET c == databaseconfigdata_
        stated == /\ c.hostname # "" /\ c.username # "" /\ c.password # ""
                  /\ c.dataname # ""
                  /\ c.port \in 1..65535
                  /\ c.poolsize > 0
    IN  /\ isValid(c) <=> stated
        /\ configRead = "ok" => stated

\* A file whose port is 65535 and whose other values are in order is refused.
C25_Witness ==
    /\ configRead = "ConfigurationError"
    /\ databaseconfigdata_.port = 65535
    /\ databaseconfigdata_.hostname = "h"
    /\ databaseconfigdata_.username = "u"
    /\ databaseconfigdata_.password = "p"
    /\ databaseconfigdata_.dataname = "n"
    /\ databaseconfigdata_.poolsize = 1
====
